---------------------------- MODULE Spec2Model ----------------------------
(***************************************************************************)
(* Model of the project-management widget (app.ts, models/project.ts):     *)
(* the validator, the observable ProjectState store, the ProjectInput      *)
(* form, and the two ProjectList components with their rendered            *)
(* ProjectItems and drag-and-drop handlers.                                *)
(*                                                                         *)
(* JavaScript strings are modelled as sequences of one-character strings,  *)
(* JavaScript numbers as decimal fractions n/d (d a power of ten) or NaN.  *)
(* Every event handler runs to completion before the next event, so each   *)
(* handler is one action.                                                  *)
(***************************************************************************)
EXTENDS Integers, Sequences, FiniteSets, TLC

VARIABLES
    pc,               \* how many of the three top-level `new` statements have run
    instance,         \* ProjectState.instance: 0 (undefined) or a ref into stores
    stores,           \* heap of ProjectState objects: [projects, listeners]
    objects,          \* heap of Project objects, in order of construction
    assignedProjects, \* ProjectList.assignedProjects, per constructed list
    dom,              \* children of each list's <ul>, per constructed list
    droppable,        \* whether each list's <ul> has class "droppable"
    titleInput,       \* value of the #title input
    descriptionInput, \* value of the #description input
    peopleInput,      \* value of the #people input
    dataTransfer,     \* the drag data store of the drag in progress, or NoDrag
    calls,            \* store calls made by the latest event's handler
    notified,         \* listener invocations made by the latest event's handler
    fault,            \* whether the latest event's handler ended in a TypeError
    defaultPrevented, \* whether the latest event's handler called preventDefault
    addStreak,        \* addProject calls since the latest updateProject call
    lastDelivered,    \* per listener, the snapshot it received last
    vConfig,          \* validator harness: the configuration under test
    vDone,            \* validator harness: whether validate has been applied
    vResult,          \* validator harness: the value validate returned
    nArrays,          \* notification harness: heap of arrays; 1 is this.projects
    nListeners,       \* notification harness: what each listener does to its array
    nNext,            \* notification harness: listener forEach is at (0: no pass)
    nPasses,          \* notification harness: notification passes begun
    nReceived         \* notification harness: the array each invocation was given

vars == << pc, instance, stores, objects, assignedProjects, dom, droppable,
           titleInput, descriptionInput, peopleInput, dataTransfer,
           calls, notified, fault, defaultPrevented, addStreak, lastDelivered,
           vConfig, vDone, vResult,
           nArrays, nListeners, nNext, nPasses, nReceived >>

-----------------------------------------------------------------------------
(* Bounds of the model.                                                    *)

\* The store holds at most this many projects.
MaxProjects == 2

\* Notification harness: at most this many listeners are registered.
MaxListeners == 2

\* Notification harness: at most this many notification passes are run.
MaxPasses == 2

-----------------------------------------------------------------------------
(* models/project.ts                                                       *)

ACTIVE == "active"
FINISHED == "finished"
ProjectStatus == {ACTIVE, FINISHED}

\* new Project(id, title, description, people, status)
Project(id, title, description, people, status) ==
    [id |-> id, title |-> title, description |-> description,
     people |-> people, status |-> status]

-----------------------------------------------------------------------------
(* JavaScript strings and numbers.                                         *)

Digits == <<"0", "1", "2", "3", "4", "5", "6", "7", "8", "9">>

IsDigit(c) == \E i \in 1..Len(Digits) : Digits[i] = c

DigitValue(c) == (CHOOSE i \in 1..Len(Digits) : Digits[i] = c) - 1

\* String.prototype.trim: strips leading and trailing white space.
RECURSIVE TrimStart(_)
TrimStart(s) ==
    IF s # <<>> /\ Head(s) = " " THEN TrimStart(Tail(s)) ELSE s

RECURSIVE TrimEnd(_)
TrimEnd(s) ==
    IF s # <<>> /\ s[Len(s)] = " " THEN TrimEnd(SubSeq(s, 1, Len(s) - 1)) ELSE s

Trim(s) == TrimEnd(TrimStart(s))

\* The Number value NaN, and the Number n/d.
NaN == [nan |-> TRUE, n |-> 0, d |-> 1]

RECURSIVE Normalize(_, _)
Normalize(n, d) ==
    IF d > 1 /\ n % 10 = 0 THEN Normalize(n \div 10, d \div 10)
    ELSE [nan |-> FALSE, n |-> n, d |-> d]

Num(n) == [nan |-> FALSE, n |-> n, d |-> 1]

RECURSIVE Pow10(_)
Pow10(k) == IF k = 0 THEN 1 ELSE 10 * Pow10(k - 1)

RECURSIVE DigitsValue(_)
DigitsValue(s) ==
    IF s = <<>> THEN 0
    ELSE 10 * DigitsValue(SubSeq(s, 1, Len(s) - 1)) + DigitValue(s[Len(s)])

AllDigits(s) == \A i \in 1..Len(s) : IsDigit(s[i])

\* Position of the first "." of s, 0 if there is none.
DotIndex(s) ==
    IF \E i \in 1..Len(s) : s[i] = "."
    THEN CHOOSE i \in 1..Len(s) : s[i] = "." /\ \A j \in 1..(i - 1) : s[j] # "."
    ELSE 0

\* Unary plus on a string (ToNumber): white space is trimmed, the empty
\* string is 0, a signed decimal literal is its value, anything else is NaN.
ToNumber(str) ==
    LET t == Trim(str)
        signed == t # <<>> /\ Head(t) \in {"-", "+"}
        sign == IF t # <<>> /\ Head(t) = "-" THEN -1 ELSE 1
        u == IF signed THEN Tail(t) ELSE t
        dot == DotIndex(u)
        ip == IF dot = 0 THEN u ELSE SubSeq(u, 1, dot - 1)
        fp == IF dot = 0 THEN <<>> ELSE SubSeq(u, dot + 1, Len(u))
    IN  IF t = <<>> THEN Num(0)
        ELSE IF AllDigits(ip) /\ AllDigits(fp) /\ Len(ip) + Len(fp) > 0
             THEN Normalize(sign * DigitsValue(ip \o fp), Pow10(Len(fp)))
             ELSE NaN

\* Decimal digits of a natural number.
RECURSIVE NatToString(_)
NatToString(k) ==
    IF k < 10 THEN <<Digits[k + 1]>>
    ELSE NatToString(k \div 10) \o <<Digits[(k % 10) + 1]>>

\* The k-digit decimal form of f, zero-padded on the left.
RECURSIVE FractionDigits(_, _)
FractionDigits(f, k) ==
    IF k = 0 THEN <<>>
    ELSE FractionDigits(f \div 10, k - 1) \o <<Digits[(f % 10) + 1]>>

RECURSIVE Log10(_)
Log10(d) == IF d <= 1 THEN 0 ELSE 1 + Log10(d \div 10)

\* Number.prototype.toString
NumberToString(x) ==
    IF x.nan THEN <<"N", "a", "N">>
    ELSE LET a == IF x.n < 0 THEN -x.n ELSE x.n
             sgn == IF x.n < 0 THEN <<"-">> ELSE <<>>
             frac == IF x.d = 1 THEN <<>>
                     ELSE <<".">> \o FractionDigits(a % x.d, Log10(x.d))
         IN  sgn \o NatToString(a \div x.d) \o frac

\* x >= y and x <= y on Numbers: false when either is NaN.
NumGeq(x, y) == ~x.nan /\ ~y.nan /\ x.n * y.d >= y.n * x.d
NumLeq(x, y) == ~x.nan /\ ~y.nan /\ x.n * y.d <= y.n * x.d

\* Truthiness of a Number: 0 and NaN are falsy.
NumTruthy(x) == ~x.nan /\ x.n # 0

\* A string value and a number value, tagged with their typeof.
StringValue(s) == [type |-> "string", s |-> s]
NumberValue(x) == [type |-> "number", x |-> x]

\* value.toString()
ValueToString(v) == IF v.type = "string" THEN v.s ELSE NumberToString(v.x)

-----------------------------------------------------------------------------
(* validate(config).  A ValidatorConfig is a record whose optional fields   *)
(* are present only when set.                                               *)

Has(config, f) == f \in DOMAIN config

\* `config.f` used as a condition: undefined, false, 0 and NaN are falsy.
TruthyField(config, f) ==
    /\ Has(config, f)
    /\ IF f = "required" THEN config[f]
       ELSE IF f \in {"minLength", "maxLength"} THEN config[f] # 0
       ELSE NumTruthy(config[f])

\* validate with the minLength check left out.
validateNoMinLength(config) ==
    LET v == config.value
        c1 == IF TruthyField(config, "required")
              THEN Len(Trim(ValueToString(v))) > 0 ELSE TRUE
        c3 == IF TruthyField(config, "maxLength") /\ v.type = "string"
              THEN c1 /\ Len(v.s) <= config.maxLength ELSE c1
        c4 == IF TruthyField(config, "min") /\ v.type = "number"
              THEN c3 /\ NumGeq(v.x, config.min) ELSE c3
        c5 == IF TruthyField(config, "max") /\ v.type = "number"
              THEN c4 /\ NumLeq(v.x, config.max) ELSE c4
    IN  c5

validate(config) ==
    LET v == config.value
        c1 == IF TruthyField(config, "required")
              THEN Len(Trim(ValueToString(v))) > 0 ELSE TRUE
        c2 == IF TruthyField(config, "minLength") /\ v.type = "string"
              THEN c1 /\ Len(v.s) >= config.minLength ELSE c1
        c3 == IF TruthyField(config, "maxLength") /\ v.type = "string"
              THEN c2 /\ Len(v.s) <= config.maxLength ELSE c2
        c4 == IF TruthyField(config, "min") /\ v.type = "number"
              THEN c3 /\ NumGeq(v.x, config.min) ELSE c3
        c5 == IF TruthyField(config, "max") /\ v.type = "number"
              THEN c4 /\ NumLeq(v.x, config.max) ELSE c4
    IN  c5


-----------------------------------------------------------------------------
(* The heap as one record, threaded through the store's and the lists'     *)
(* methods: [instance, stores, objects, assignedProjects, dom, notified,   *)
(* fault].                                                                  *)

World ==
    [instance |-> instance, stores |-> stores, objects |-> objects,
     assignedProjects |-> assignedProjects, dom |-> dom,
     notified |-> <<>>, fault |-> FALSE]

\* The Project objects a sequence of references points to, as they are now.
View(objs, refs) == [i \in 1..Len(refs) |-> objs[refs[i]]]

\* Array.prototype.filter over a sequence of references: those whose
\* Project object has value `want` in field `f`.
FilterRefs(objs, refs, f, want) ==
    SelectSeq(refs, LAMBDA r : objs[r][f] = want)

-----------------------------------------------------------------------------
(* class ProjectItem                                                        *)

\* get peopleCount()
peopleCount(project) ==
    IF project.people = Num(1) THEN <<"1", " person assigned">>
    ELSE NumberToString(project.people) \o <<" people assigned">>

\* new ProjectItem(hostId, project): the <li> appended to the host <ul>,
\* with its element id and the text renderContent() puts into it.
ProjectItem(objs, ref) ==
    [project |-> ref,
     id |-> objs[ref].id,
     h2 |-> objs[ref].title,
     h3 |-> peopleCount(objs[ref]),
     p  |-> objs[ref].description]

-----------------------------------------------------------------------------
(* class ProjectList                                                        *)

\* renderProjects(): the <ul> is emptied, then one ProjectItem is appended
\* for each assigned project, in order.
RECURSIVE AppendItems(_, _, _)
AppendItems(children, objs, refs) ==
    IF refs = <<>> THEN children
    ELSE AppendItems(Append(children, ProjectItem(objs, Head(refs))),
                     objs, Tail(refs))

\* renderProjects without `listEl.innerHTML = ""`.
renderProjectsNoClear(w, type) ==
    [w EXCEPT !.dom[type] =
         AppendItems(w.dom[type], w.objects, w.assignedProjects[type])]

renderProjects(w, type) ==
    LET cleared == [w.dom EXCEPT ![type] = <<>>]
    IN  [w EXCEPT !.dom =
             [cleared EXCEPT ![type] =
                  AppendItems(cleared[type], w.objects, w.assignedProjects[type])]]

\* The listener ProjectList.configure() registers, called with `projects`.
Listener(w, type, projects) ==
    LET w1 == [w EXCEPT !.assignedProjects[type] =
                            FilterRefs(w.objects, projects, "status", type),
                        !.notified = Append(w.notified,
                            [listener |-> type, projects |-> projects,
                             view |-> View(w.objects, projects)])]
    IN  renderProjects(w1, type)

-----------------------------------------------------------------------------
(* class State / class ProjectState                                         *)

\* new ProjectState()
NewProjectState == [projects |-> <<>>, listeners |-> <<>>]

\* getInstance without the `if (this.instance)` test.
getInstanceAlwaysNew(w) ==
    [w EXCEPT !.stores = Append(w.stores, NewProjectState),
              !.instance = Len(w.stores) + 1]

\* static getInstance(): the world after the call; .instance is the result.
getInstance(w) ==
    IF w.instance # 0 THEN w
    ELSE [w EXCEPT !.stores = Append(w.stores, NewProjectState),
                   !.instance = Len(w.stores) + 1]

\* addListener with unshift in place of push.
addListenerPrepend(w, s, listenerFn) ==
    [w EXCEPT !.stores[s].listeners = <<listenerFn>> \o @]

\* addListener(listenerFn) on store s; a list's listener is named by its type.
addListener(w, s, listenerFn) ==
    [w EXCEPT !.stores[s].listeners = Append(@, listenerFn)]

\* this.listeners.forEach((listener) => listener(this.projects.slice()))
RECURSIVE ForEachListener(_, _, _)
ForEachListener(w, listeners, s) ==
    IF listeners = <<>> THEN w
    ELSE ForEachListener(Listener(w, Head(listeners), w.stores[s].projects),
                         Tail(listeners), s)

notifyListeners(w, s) == ForEachListener(w, w.stores[s].listeners, s)

\* addProject with unshift in place of push.
addProjectPrepend(w, s, id, title, description, numPeople) ==
    LET newProject == Project(id, title, description, numPeople, ACTIVE)
        ref == Len(w.objects) + 1
        w1 == [w EXCEPT !.objects = Append(@, newProject),
                        !.stores[s].projects = <<ref>> \o @]
    IN  notifyListeners(w1, s)

\* addProject that notifies before it pushes.
addProjectNotifyFirst(w, s, id, title, description, numPeople) ==
    LET newProject == Project(id, title, description, numPeople, ACTIVE)
        ref == Len(w.objects) + 1
        w1 == notifyListeners(w, s)
    IN  [w1 EXCEPT !.objects = Append(@, newProject),
                   !.stores[s].projects = Append(@, ref)]

\* addProject(title, description, numPeople) on store s; id is the value
\* of Math.random().toString().
addProject(w, s, id, title, description, numPeople) ==
    LET newProject == Project(id, title, description, numPeople, ACTIVE)
        ref == Len(w.objects) + 1
        w1 == [w EXCEPT !.objects = Append(@, newProject),
                        !.stores[s].projects = Append(@, ref)]
    IN  notifyListeners(w1, s)

\* updateProject that notifies before it assigns the status.
updateProjectNotifyFirst(w, s, id, status) ==
    LET matches == FilterRefs(w.objects, w.stores[s].projects, "id", id)
    IN  IF matches = <<>> THEN [w EXCEPT !.fault = TRUE]
        ELSE [notifyListeners(w, s) EXCEPT !.objects[matches[1]].status = status]

\* updateProject that returns silently when no project matches.
updateProjectSilent(w, s, id, status) ==
    LET matches == FilterRefs(w.objects, w.stores[s].projects, "id", id)
    IN  IF matches = <<>> THEN w
        ELSE notifyListeners([w EXCEPT !.objects[matches[1]].status = status], s)

\* updateProject that moves the updated project to the end of the sequence.
updateProjectMoveToEnd(w, s, id, status) ==
    LET matches == FilterRefs(w.objects, w.stores[s].projects, "id", id)
    IN  IF matches = <<>> THEN [w EXCEPT !.fault = TRUE]
        ELSE notifyListeners(
                 [w EXCEPT !.objects[matches[1]].status = status,
                           !.stores[s].projects =
                               Append(SelectSeq(@, LAMBDA r : r # matches[1]),
                                      matches[1])], s)

\* updateProject(id, status) on store s: a TypeError when no project matches.
updateProject(w, s, id, status) ==
    LET matches == FilterRefs(w.objects, w.stores[s].projects, "id", id)
    IN  IF matches = <<>> THEN [w EXCEPT !.fault = TRUE]
        ELSE notifyListeners([w EXCEPT !.objects[matches[1]].status = status], s)

\* The store's project sequence, as Project records.
StoreProjects ==
    IF instance = 0 THEN <<>> ELSE View(objects, stores[instance].projects)

-----------------------------------------------------------------------------
(* class ProjectInput                                                       *)

titleValidatable(title) == [value |-> StringValue(title), required |-> TRUE]

descriptionValidatable(description) ==
    [value |-> StringValue(description), required |-> TRUE, minLength |-> 5]

peopleValidatable(people) ==
    [value |-> NumberValue(people), required |-> TRUE,
     min |-> Num(1), max |-> Num(5)]

\* gatherUserInput(): <<title, description, people>>, or <<>> for `undefined`.
gatherUserInput ==
    LET title == titleInput
        description == descriptionInput
        people == ToNumber(peopleInput)
        isValid == /\ validate(titleValidatable(title))
                   /\ validate(descriptionValidatable(description))
                   /\ validate(peopleValidatable(people))
    IN  IF isValid THEN <<title, description, people>> ELSE <<>>


-----------------------------------------------------------------------------
(* The environment: what the user can type, what Math.random() can return, *)
(* and what can be dragged over the page.                                  *)

\* The forms the user fills in, as <<title, description, people>>: two
\* that pass validation, and forms that fail one of the three validations.
ValidTitle == <<"a">>
ValidDescription == <<" ", " ", "a", "b", " ", " ">>

FormInputs ==
    { <<ValidTitle, ValidDescription, <<"1">> >>,
      <<ValidTitle, ValidDescription, <<"2", ".", "5">> >>,
      << <<>>, ValidDescription, <<"1">> >>,
      << <<" ">>, ValidDescription, <<"1">> >>,
      <<ValidTitle, <<"a", "b", "c", "d">>, <<"1">> >>,
      <<ValidTitle, <<" ", " ", " ", " ", " ">>, <<"1">> >>,
      <<ValidTitle, ValidDescription, <<>> >>,
      <<ValidTitle, ValidDescription, <<"6">> >>,
      <<ValidTitle, ValidDescription, <<"a">> >> }

\* Values of Math.random().toString(); nothing keeps two calls apart.
RandomIds == { "0.1", "0.2" }

\* `source` is the Project a dragged ProjectItem was rendered from (0 when
\* the drag did not start on a ProjectItem).
NoDrag ==
    [active |-> FALSE, types |-> <<>>, data |-> "", effectAllowed |-> "none",
     fromItem |-> FALSE, source |-> 0]

\* Drags that do not start on a ProjectItem: selected text, a link (whose
\* first type is not text/plain), and a file.
ExternalDrags ==
    { [active |-> TRUE, types |-> <<"text/plain">>, data |-> "some text",
       effectAllowed |-> "uninitialized", fromItem |-> FALSE, source |-> 0],
      [active |-> TRUE, types |-> <<"text/uri-list", "text/plain">>,
       data |-> "http://a/", effectAllowed |-> "uninitialized",
       fromItem |-> FALSE, source |-> 0],
      [active |-> TRUE, types |-> <<"Files">>, data |-> "",
       effectAllowed |-> "uninitialized", fromItem |-> FALSE, source |-> 0] }

\* event.dataTransfer.getData("text/plain")
getData(dt) ==
    IF \E i \in 1..Len(dt.types) : dt.types[i] = "text/plain" THEN dt.data ELSE ""

-----------------------------------------------------------------------------
(* Initial state: before the script's three top-level statements run.       *)

NoConfig == [value |-> StringValue(<<>>)]

InitApp ==
    /\ pc = 0
    /\ instance = 0
    /\ stores = <<>>
    /\ objects = <<>>
    /\ assignedProjects = <<>>
    /\ dom = <<>>
    /\ droppable = <<>>
    /\ titleInput = <<>>
    /\ descriptionInput = <<>>
    /\ peopleInput = <<>>
    /\ dataTransfer = NoDrag
    /\ calls = <<>>
    /\ notified = <<>>
    /\ fault = FALSE
    /\ defaultPrevented = FALSE
    /\ addStreak = 0
    /\ lastDelivered = <<>>

ValidateIdle ==
    /\ vConfig = NoConfig
    /\ vDone = FALSE
    /\ vResult = FALSE

NotifyIdle ==
    /\ nArrays = << <<>> >>
    /\ nListeners = <<>>
    /\ nNext = 0
    /\ nPasses = 0
    /\ nReceived = <<>>

Init ==
    /\ InitApp
    /\ ValidateIdle
    /\ NotifyIdle

Ready == pc = 3

\* The snapshots a handler delivered become each listener's latest one.
RECURSIVE RecordDelivered(_, _)
RecordDelivered(delivered, events) ==
    IF events = <<>> THEN delivered
    ELSE RecordDelivered((Head(events).listener :> Head(events).view) @@ delivered,
                         Tail(events))

\* The heap after a handler that left it as w.
Commit(w) ==
    /\ instance' = w.instance
    /\ stores' = w.stores
    /\ objects' = w.objects
    /\ assignedProjects' = w.assignedProjects
    /\ dom' = w.dom
    /\ notified' = w.notified
    /\ fault' = w.fault
    /\ lastDelivered' = RecordDelivered(lastDelivered, w.notified)

HeapUnchanged ==
    /\ UNCHANGED << instance, stores, objects, assignedProjects, dom, lastDelivered >>
    /\ notified' = <<>>
    /\ fault' = FALSE

FormUnchanged == UNCHANGED << titleInput, descriptionInput, peopleInput >>

HarnessUnchanged ==
    UNCHANGED << vConfig, vDone, vResult,
                 nArrays, nListeners, nNext, nPasses, nReceived >>

AppUnchanged ==
    UNCHANGED << pc, instance, stores, objects, assignedProjects, dom,
                 droppable, titleInput, descriptionInput, peopleInput,
                 dataTransfer, calls, notified, fault, defaultPrevented,
                 addStreak, lastDelivered >>

-----------------------------------------------------------------------------
(* Bootstrap: new ProjectInput(); new ProjectList(ACTIVE);                  *)
(* new ProjectList(FINISHED).                                               *)

NewProjectInput ==
    /\ pc = 0
    /\ pc' = 1
    /\ HeapUnchanged
    /\ calls' = <<>>
    /\ defaultPrevented' = FALSE
    /\ FormUnchanged
    /\ HarnessUnchanged
    /\ UNCHANGED << droppable, dataTransfer, addStreak >>

\* The constructor: the element is attached with an empty <ul>, then
\* configure() registers the listener with the store.
NewProjectList(type) ==
    LET w0 == [World EXCEPT !.assignedProjects = (type :> <<>>) @@ @,
                            !.dom = (type :> <<>>) @@ @]
        w1 == getInstance(w0)
    IN  /\ Commit(addListener(w1, w1.instance, type))
        /\ droppable' = (type :> FALSE) @@ droppable
        /\ pc' = pc + 1
        /\ calls' = <<>>
        /\ defaultPrevented' = FALSE
        /\ FormUnchanged
        /\ HarnessUnchanged
        /\ UNCHANGED << dataTransfer, addStreak >>

NewActiveList == pc = 1 /\ NewProjectList(ACTIVE)

NewFinishedList == pc = 2 /\ NewProjectList(FINISHED)

-----------------------------------------------------------------------------
(* The form.                                                                *)

\* The user fills in the three fields.
FillForm ==
    /\ Ready
    /\ \E form \in FormInputs :
           /\ titleInput' = form[1]
           /\ descriptionInput' = form[2]
           /\ peopleInput' = form[3]
    /\ HeapUnchanged
    /\ calls' = <<>>
    /\ defaultPrevented' = FALSE
    /\ HarnessUnchanged
    /\ UNCHANGED << pc, droppable, dataTransfer, addStreak >>

\* submitHandler without the clearInputs() call.
submitHandlerNoClear(id) ==
    LET userInput == gatherUserInput
    IN  /\ defaultPrevented' = TRUE
        /\ IF userInput # <<>>
           THEN LET w == getInstance(World)
                IN  /\ Len(objects) < MaxProjects
                    /\ Commit(addProject(w, w.instance, id, userInput[1],
                                         userInput[2], userInput[3]))
                    /\ calls' = << [op |-> "addProject", args |-> userInput] >>
                    /\ addStreak' = addStreak + 1
                    /\ FormUnchanged
           ELSE /\ HeapUnchanged
                /\ calls' = <<>>
                /\ FormUnchanged
                /\ UNCHANGED addStreak

\* submitHandler(event), with `id` the value Math.random() yields if it is
\* called.
submitHandler(id) ==
    LET userInput == gatherUserInput
    IN  /\ defaultPrevented' = TRUE
        /\ IF userInput # <<>>
           THEN LET w == getInstance(World)
                IN  /\ Len(objects) < MaxProjects
                    /\ Commit(addProject(w, w.instance, id, userInput[1],
                                         userInput[2], userInput[3]))
                    /\ calls' = << [op |-> "addProject", args |-> userInput] >>
                    /\ addStreak' = addStreak + 1
                    \* clearInputs()
                    /\ titleInput' = <<>>
                    /\ descriptionInput' = <<>>
                    /\ peopleInput' = <<>>
           ELSE /\ HeapUnchanged
                /\ calls' = <<>>
                /\ FormUnchanged
                /\ UNCHANGED addStreak

Submit ==
    /\ Ready
    /\ \E id \in RandomIds : submitHandler(id)
    /\ HarnessUnchanged
    /\ UNCHANGED << pc, droppable, dataTransfer >>

-----------------------------------------------------------------------------
(* Drag and drop.                                                           *)

\* dragStartHandler that sets the id under another format.
dragStartHandlerWrongFormat(item) ==
    [active |-> TRUE, types |-> <<"text/html">>,
     data |-> objects[item.project].id,
     effectAllowed |-> "move", fromItem |-> TRUE, source |-> item.project]

\* ProjectItem.dragStartHandler(event) of a rendered item: the drag data
\* store after it.
dragStartHandler(item) ==
    [active |-> TRUE, types |-> <<"text/plain">>,
     data |-> objects[item.project].id,
     effectAllowed |-> "move", fromItem |-> TRUE, source |-> item.project]

\* A dragstart event on the i-th item rendered in a list.
DragStart ==
    /\ Ready
    /\ ~dataTransfer.active
    /\ \E type \in DOMAIN dom : \E i \in 1..Len(dom[type]) :
           dataTransfer' = dragStartHandler(dom[type][i])
    /\ HeapUnchanged
    /\ calls' = <<>>
    /\ defaultPrevented' = FALSE
    /\ FormUnchanged
    /\ HarnessUnchanged
    /\ UNCHANGED << pc, droppable, addStreak >>

\* A drag that starts elsewhere and is carried over the page.
ExternalDragStart ==
    /\ Ready
    /\ ~dataTransfer.active
    /\ dataTransfer' \in ExternalDrags
    /\ HeapUnchanged
    /\ calls' = <<>>
    /\ defaultPrevented' = FALSE
    /\ FormUnchanged
    /\ HarnessUnchanged
    /\ UNCHANGED << pc, droppable, addStreak >>

\* dragOverHandler that looks for text/plain among all the types.
dragOverHandlerAnyType(type) ==
    IF \E i \in 1..Len(dataTransfer.types) : dataTransfer.types[i] = "text/plain"
    THEN /\ defaultPrevented' = TRUE
         /\ droppable' = [droppable EXCEPT ![type] = TRUE]
    ELSE /\ defaultPrevented' = FALSE
         /\ UNCHANGED droppable

\* ProjectList.dragOverHandler(event)
dragOverHandler(type) ==
    IF dataTransfer.types # <<>> /\ dataTransfer.types[1] = "text/plain"
    THEN /\ defaultPrevented' = TRUE
         /\ droppable' = [droppable EXCEPT ![type] = TRUE]
    ELSE /\ defaultPrevented' = FALSE
         /\ UNCHANGED droppable

\* A dragover event on the list of status `type`.
DragOverOn(type) ==
    /\ Ready
    /\ dataTransfer.active
    /\ dragOverHandler(type)
    /\ HeapUnchanged
    /\ calls' = <<>>
    /\ FormUnchanged
    /\ HarnessUnchanged
    /\ UNCHANGED << pc, dataTransfer, addStreak >>

DragOver == \E type \in DOMAIN dom : DragOverOn(type)

\* ProjectList.dragLeaveHandler(_)
dragLeaveHandler(type) == droppable' = [droppable EXCEPT ![type] = FALSE]

\* A dragleave event on the list of status `type`.
DragLeaveOn(type) ==
    /\ Ready
    /\ dataTransfer.active
    /\ dragLeaveHandler(type)
    /\ HeapUnchanged
    /\ calls' = <<>>
    /\ defaultPrevented' = FALSE
    /\ FormUnchanged
    /\ HarnessUnchanged
    /\ UNCHANGED << pc, dataTransfer, addStreak >>

DragLeave == \E type \in DOMAIN dom : DragLeaveOn(type)

\* dropHandler that also removes the "droppable" class.
dropHandlerClearsMarker(type) ==
    LET projectId == getData(dataTransfer)
        w == getInstance(World)
    IN  /\ Commit(updateProject(w, w.instance, projectId, type))
        /\ calls' = << [op |-> "updateProject", args |-> <<projectId, type>>] >>
        /\ addStreak' = 0
        /\ droppable' = [droppable EXCEPT ![type] = FALSE]

\* ProjectList.dropHandler(event)
dropHandler(type) ==
    LET projectId == getData(dataTransfer)
        w == getInstance(World)
    IN  /\ Commit(updateProject(w, w.instance, projectId, type))
        /\ calls' = << [op |-> "updateProject", args |-> <<projectId, type>>] >>
        /\ addStreak' = 0
        /\ UNCHANGED droppable

\* A drop event on the list of status `type`; the drop ends the drag.
DropOn(type) ==
    /\ Ready
    /\ dataTransfer.active
    /\ dropHandler(type)
    /\ dataTransfer' = NoDrag
    /\ defaultPrevented' = FALSE
    /\ FormUnchanged
    /\ HarnessUnchanged
    /\ UNCHANGED pc

Drop == \E type \in DOMAIN dom : DropOn(type)

\* The drag is abandoned; ProjectItem.dragEndHandler() does nothing.
DragEnd ==
    /\ Ready
    /\ dataTransfer.active
    /\ dataTransfer' = NoDrag
    /\ HeapUnchanged
    /\ calls' = <<>>
    /\ defaultPrevented' = FALSE
    /\ FormUnchanged
    /\ HarnessUnchanged
    /\ UNCHANGED << pc, droppable, addStreak >>

-----------------------------------------------------------------------------

Next ==
    \/ NewProjectInput
    \/ NewActiveList
    \/ NewFinishedList
    \/ FillForm
    \/ Submit
    \/ DragStart
    \/ ExternalDragStart
    \/ DragOver
    \/ DragLeave
    \/ Drop
    \/ DragEnd

Spec == Init /\ [][Next]_vars


-----------------------------------------------------------------------------
(* validate on its own: a configuration is drawn, then validate is applied. *)

Optional(f, S) == { <<>> } \cup { f :> x : x \in S }

ValidatorValues ==
    { StringValue(<<>>), StringValue(<<" ">>), StringValue(<<"a">>),
      StringValue(<<"a", "b", "c", "d", "e">>),
      NumberValue(Num(0)), NumberValue(Num(-1)), NumberValue(Num(3)),
      NumberValue(Num(6)), NumberValue(NaN) }

ValidatorConfigs ==
    { ("value" :> v) @@ r @@ a @@ b @@ c @@ d :
          v \in ValidatorValues,
          r \in Optional("required", BOOLEAN),
          a \in Optional("minLength", {0, 5}),
          b \in Optional("maxLength", {0, 1}),
          c \in Optional("min", {Num(0), Num(1)}),
          d \in Optional("max", {Num(0), Num(5)}) }

InitValidate ==
    /\ InitApp
    /\ NotifyIdle
    /\ vConfig \in ValidatorConfigs
    /\ vDone = FALSE
    /\ vResult = FALSE

ApplyValidate ==
    /\ ~vDone
    /\ vDone' = TRUE
    /\ vResult' = validate(vConfig)
    /\ AppUnchanged
    /\ UNCHANGED << vConfig, nArrays, nListeners, nNext, nPasses, nReceived >>

NextValidate == ApplyValidate

SpecValidate == InitValidate /\ [][NextValidate]_vars

-----------------------------------------------------------------------------
(* The notification statement on its own, with arrays as heap objects:      *)
(*   this.listeners.forEach((listener) => listener(this.projects.slice())) *)
(* run for listeners that may change the array they are given.              *)

\* What a listener may do to the array it is given.
ListenerBehaviours == { "read", "push", "pop", "reverse" }

Reverse(items) == [i \in 1..Len(items) |-> items[Len(items) + 1 - i]]

\* The array after a listener of behaviour b has run on it.
RunBehaviour(items, b) ==
    CASE b = "read" -> items
      [] b = "push" -> Append(items, 0)
      [] b = "pop" -> IF items = <<>> THEN items
                      ELSE SubSeq(items, 1, Len(items) - 1)
      [] b = "reverse" -> Reverse(items)

\* The argument passed without slice(): the array itself.
sliceShared(arrays, ref) == [arrays |-> arrays, ref |-> ref]

\* Array.prototype.slice(): a new array with the same elements; .ref is the
\* result, .arrays the heap after the call.
slice(arrays, ref) ==
    [arrays |-> Append(arrays, arrays[ref]), ref |-> Len(arrays) + 1]

InitNotify ==
    /\ InitApp
    /\ ValidateIdle
    /\ \E n \in 0..MaxProjects : nArrays = << [i \in 1..n |-> i] >>
    /\ \E k \in 1..MaxListeners : nListeners \in [1..k -> ListenerBehaviours]
    /\ nNext = 0
    /\ nPasses = 0
    /\ nReceived = <<>>

\* updateProject reaches its forEach with this.projects as it is.
BeginPassAfterUpdate ==
    /\ nNext = 0
    /\ nPasses < MaxPasses
    /\ nNext' = 1
    /\ nPasses' = nPasses + 1
    /\ AppUnchanged
    /\ UNCHANGED << vConfig, vDone, vResult, nArrays, nListeners, nReceived >>

\* addProject pushes the new project, then reaches its forEach.
BeginPassAfterAdd ==
    /\ nNext = 0
    /\ nPasses < MaxPasses
    /\ nArrays' = [nArrays EXCEPT ![1] = Append(@, Len(@) + 1)]
    /\ nNext' = 1
    /\ nPasses' = nPasses + 1
    /\ AppUnchanged
    /\ UNCHANGED << vConfig, vDone, vResult, nListeners, nReceived >>

\* One turn of the forEach: listener(this.projects.slice()), the listener
\* then doing what it does to the array it was given.
InvokeListener ==
    /\ nNext # 0
    /\ LET copy == slice(nArrays, 1)
       IN  /\ nReceived' = Append(nReceived,
                                  [pass |-> nPasses, array |-> copy.ref,
                                   items |-> copy.arrays[copy.ref]])
           /\ nArrays' = [copy.arrays EXCEPT ![copy.ref] =
                              RunBehaviour(@, nListeners[nNext])]
    /\ nNext' = IF nNext = Len(nListeners) THEN 0 ELSE nNext + 1
    /\ AppUnchanged
    /\ UNCHANGED << vConfig, vDone, vResult, nListeners, nPasses >>

NextNotify ==
    \/ BeginPassAfterUpdate
    \/ BeginPassAfterAdd
    \/ InvokeListener

SpecNotify == InitNotify /\ [][NextNotify]_vars

-----------------------------------------------------------------------------
(* Properties.                                                              *)

Range(seq) == { seq[i] : i \in 1..Len(seq) }

\* The references the store's project sequence holds.
StoreRefs == IF instance = 0 THEN <<>> ELSE stores[instance].projects

\* The latest handler called addProject / updateProject.
CalledAdd == calls # <<>> /\ calls[1].op = "addProject"
CalledUpdate == calls # <<>> /\ calls[1].op = "updateProject"

\* C1: addProject on a store of n projects leaves n+1 projects: the first n
\* are the same objects, in the same order, with unchanged fields, and the
\* last is a new project with the given title, description and people count
\* and status ACTIVE.
C1_AddProjectAppends ==
    [][ CalledAdd' =>
          LET n == Len(StoreRefs)
              added == StoreProjects'[n + 1]
          IN  /\ Len(StoreRefs') = n + 1
              /\ SubSeq(StoreRefs', 1, n) = StoreRefs
              /\ SubSeq(StoreProjects', 1, n) = StoreProjects
              /\ StoreRefs'[n + 1] \notin Range(StoreRefs)
              /\ added.title = calls'[1].args[1]
              /\ added.description = calls'[1].args[2]
              /\ added.people = calls'[1].args[3]
              /\ added.status = ACTIVE ]_vars

\* C1 witness: addProject has just run on a store that held one project, by
\* then FINISHED.
C1_Witness ==
    /\ CalledAdd
    /\ Len(StoreProjects) = 2
    /\ StoreProjects[1].status = FINISHED

\* C2: no two projects in the store have the same id.
C2_UniqueIds ==
    \A i, j \in 1..Len(StoreProjects) :
        i # j => StoreProjects[i].id # StoreProjects[j].id

\* C3: a successful addProject or updateProject call invokes each registered
\* listener exactly once, in registration order, after the mutation, with
\* the store's complete current project sequence.
C3_NotificationPass ==
    [][ (calls' # <<>> /\ ~fault') =>
          LET listeners == stores'[instance'].listeners
          IN  /\ Len(notified') = Len(listeners)
              /\ \A k \in 1..Len(listeners) :
                    /\ notified'[k].listener = listeners[k]
                    /\ notified'[k].projects = StoreRefs'
                    /\ notified'[k].view = StoreProjects' ]_vars

\* C3 witness: an updateProject call on a store of two projects has notified
\* both listeners.
C3_Witness ==
    /\ CalledUpdate
    /\ ~fault
    /\ Len(notified) = 2
    /\ Len(StoreProjects) = 2

\* C4: after updateProject(id, FINISHED), a project with that id that was
\* ACTIVE is in the finished list's assigned projects and not in the active
\* list's, its other fields are unchanged, and every other project is
\* unchanged.
C4_UpdateMovesProject ==
    [][ (CalledUpdate' /\ ~fault' /\ calls'[1].args[2] = FINISHED) =>
          LET id == calls'[1].args[1]
          IN  \A r \in Range(StoreRefs) :
                  IF objects[r].id = id /\ objects[r].status = ACTIVE
                  THEN /\ r \notin Range(assignedProjects'[ACTIVE])
                       /\ r \in Range(assignedProjects'[FINISHED])
                       /\ objects'[r] = [objects[r] EXCEPT !.status = FINISHED]
                  ELSE objects'[r] = objects[r] ]_vars

\* Whether a is a subsequence of s: the elements of a, in order, at
\* increasing positions of s.
IsSubsequence(a, s) ==
    \E pos \in [1..Len(a) -> 1..Len(s)] :
        /\ \A i \in 1..Len(a) : s[pos[i]] = a[i]
        /\ \A i, j \in 1..Len(a) : i < j => pos[i] < pos[j]

\* C5: between handlers, each list's assignedProjects and rendered items are
\* exactly the store's projects of that list's status, in store order, once
\* each; with both lists constructed every project is in exactly one list.
C5_ListsShowStore ==
    /\ \A type \in DOMAIN dom :
          LET assigned == assignedProjects[type]
          IN  /\ IsSubsequence(assigned, StoreRefs)
              /\ \A r \in Range(StoreRefs) :
                    (r \in Range(assigned)) <=> (objects[r].status = type)
              /\ Len(dom[type]) = Len(assigned)
              /\ \A i \in 1..Len(assigned) :
                    /\ dom[type][i].project = assigned[i]
                    /\ dom[type][i].id = objects[assigned[i]].id
                    /\ dom[type][i].h2 = objects[assigned[i]].title
                    /\ dom[type][i].h3 = peopleCount(objects[assigned[i]])
                    /\ dom[type][i].p = objects[assigned[i]].description
    /\ Ready =>
          \A r \in Range(StoreRefs) :
              Cardinality({ <<type, i>> \in ProjectStatus \X (1..Len(StoreRefs)) :
                              /\ i <= Len(dom[type])
                              /\ dom[type][i].project = r }) = 1

\* C5 witness: after a drop, each list shows a project.
C5_Witness ==
    /\ Ready
    /\ CalledUpdate
    /\ ~fault
    /\ Len(dom[ACTIVE]) = 1
    /\ Len(dom[FINISHED]) = 1

\* C6: every project in the store has a title that is not empty or
\* whitespace-only, a description that is not whitespace-only and has length
\* at least 5, and a people count between 1 and 5 inclusive.
C6_StoredProjectsValid ==
    \A i \in 1..Len(StoreProjects) :
        LET project == StoreProjects[i]
        IN  /\ Trim(project.title) # <<>>
            /\ Trim(project.description) # <<>>
            /\ Len(project.description) >= 5
            /\ NumGeq(project.people, Num(1))
            /\ NumLeq(project.people, Num(5))

\* C6 witness: the store holds a project that passed validation.
C6_Witness ==
    /\ Len(StoreProjects) = 2
    /\ StoreProjects[2].description = ValidDescription
    /\ StoreProjects[2].people = ToNumber(<<"2", ".", "5">>)

\* Whether the three input fields pass their validations.
InputValid ==
    /\ validate(titleValidatable(titleInput))
    /\ validate(descriptionValidatable(descriptionInput))
    /\ validate(peopleValidatable(ToNumber(peopleInput)))

\* C7: a submit of valid input calls addProject once with the entered values
\* and clears the three fields; a submit of invalid input ends without a
\* fault, leaves the store unchanged, notifies no listener and keeps the
\* fields.
C7_SubmitOutcome ==
    [][ Submit =>
          IF InputValid
          THEN /\ calls' = << [op |-> "addProject",
                               args |-> <<titleInput, descriptionInput,
                                          ToNumber(peopleInput)>>] >>
               /\ Len(StoreRefs') = Len(StoreRefs) + 1
               /\ ~fault'
               /\ titleInput' = <<>>
               /\ descriptionInput' = <<>>
               /\ peopleInput' = <<>>
          ELSE /\ calls' = <<>>
               /\ ~fault'
               /\ StoreRefs' = StoreRefs
               /\ objects' = objects
               /\ notified' = <<>>
               /\ titleInput' = titleInput
               /\ descriptionInput' = descriptionInput
               /\ peopleInput' = peopleInput ]_vars

\* C7 witness: a valid submit has added a second project and cleared the
\* fields.
C7_Witness ==
    /\ CalledAdd
    /\ Len(StoreProjects) = 2
    /\ titleInput = <<>>
    /\ descriptionInput = <<>>
    /\ peopleInput = <<>>

\* What the contract of validate asks for: every constraint that is set
\* passes, whatever its bound.
SpecifiedConstraintsPass(config) ==
    LET v == config.value
    IN  /\ (Has(config, "required") /\ config.required)
              => Len(Trim(ValueToString(v))) > 0
        /\ (Has(config, "minLength") /\ v.type = "string")
              => Len(v.s) >= config.minLength
        /\ (Has(config, "maxLength") /\ v.type = "string")
              => Len(v.s) <= config.maxLength
        /\ (Has(config, "min") /\ v.type = "number")
              => NumGeq(v.x, config.min)
        /\ (Has(config, "max") /\ v.type = "number")
              => NumLeq(v.x, config.max)

\* C8: validate returns true if and only if every specified constraint
\* passes, a bound of 0 included.
C8_ValidateEnforcesSpecified ==
    vDone => (vResult <=> SpecifiedConstraintsPass(vConfig))

\* C9: updateProject with an id that matches no project ends in a fault,
\* changes no project and notifies no listener.
C9_UnknownIdFaults ==
    [][ (CalledUpdate' /\
         \A r \in Range(StoreRefs) : objects[r].id # calls'[1].args[1]) =>
          /\ fault'
          /\ objects' = objects
          /\ stores' = stores
          /\ notified' = <<>> ]_vars

\* C9 witness: a drop whose payload matches none of the store's projects has
\* faulted.
C9_Witness ==
    /\ CalledUpdate
    /\ fault
    /\ Len(StoreProjects) = 2

\* The snapshot a listener received last; empty before its first.
Delivered(l) == IF l \in DOMAIN lastDelivered THEN lastDelivered[l] ELSE <<>>

\* C10: each addProject call delivers one notification to every listener,
\* its snapshot one longer than the listener's previous one; when the
\* previous store call was addProject too, it is the previous snapshot
\* followed by the new project.
C10_SnapshotsGrow ==
    [][ CalledAdd' =>
          \A l \in Range(stores'[instance'].listeners) :
              LET got == SelectSeq(notified', LAMBDA e : e.listener = l)
              IN  /\ Len(got) = 1
                  /\ Len(got[1].view) = Len(Delivered(l)) + 1
                  /\ addStreak >= 1 =>
                        got[1].view =
                            Append(Delivered(l), objects'[Len(objects')]) ]_vars

\* C10 witness: two addProject calls in a row have been delivered.
C10_Witness ==
    /\ CalledAdd
    /\ addStreak = 2
    /\ Len(Delivered(ACTIVE)) = 2
    /\ Len(Delivered(FINISHED)) = 2


\* The listeners registered with the store.
StoreListeners == IF instance = 0 THEN <<>> ELSE stores[instance].listeners

IsPrefix(a, b) == Len(a) <= Len(b) /\ SubSeq(b, 1, Len(a)) = a

\* The projects the items rendered in a list were rendered from.
Rendered(type) == { dom[type][i].project : i \in 1..Len(dom[type]) }

\* C11: dropping a dragged item on a list gives the project the item was
\* rendered from the list's status and changes no other project; the item is
\* then rendered in that list and not in the other.
C11_DropMovesDraggedProject ==
    [][ \A type \in ProjectStatus :
          (DropOn(type) /\ dataTransfer.fromItem) =>
              LET project == dataTransfer.source
              IN  /\ calls'[1].args = <<objects[project].id, type>>
                  /\ objects' = [objects EXCEPT ![project].status = type]
                  /\ project \in Rendered(type)'
                  /\ \A other \in ProjectStatus \ {type} :
                        project \notin Rendered(other)' ]_vars

\* C12: projects are never removed from the store nor reordered; id, title,
\* description and people count of a project never change; status changes
\* only in a step that calls updateProject.
C12_ProjectsOnlyChangeStatus ==
    [][ /\ IsPrefix(StoreRefs, StoreRefs')
        /\ Len(objects) <= Len(objects')
        /\ \A r \in 1..Len(objects) :
              /\ objects'[r].id = objects[r].id
              /\ objects'[r].title = objects[r].title
              /\ objects'[r].description = objects[r].description
              /\ objects'[r].people = objects[r].people
              /\ objects'[r].status # objects[r].status => CalledUpdate' ]_vars

\* C12 witness: updateProject has changed the status of the first of two
\* projects.
C12_Witness ==
    /\ CalledUpdate
    /\ ~fault
    /\ Len(StoreProjects) = 2
    /\ StoreRefs = <<1, 2>>
    /\ StoreProjects[1].status = FINISHED
    /\ StoreProjects[2].status = ACTIVE

\* C13: there is at most one store; it does not exist before the first
\* getInstance call (made by the active list's constructor) and is the one
\* every later call returns, so both lists listen to the store the form
\* adds to.
C13_SingleStore ==
    /\ Len(stores) <= 1
    /\ instance = Len(stores)
    /\ pc < 2 => instance = 0
    /\ pc >= 2 => instance = 1
    /\ \A type \in DOMAIN dom : type \in Range(StoreListeners)
    /\ CalledAdd => Len(notified) = Cardinality(DOMAIN dom)

\* C13 witness: the form's addProject has reached both lists' listeners on
\* the one store.
C13_Witness ==
    /\ Ready
    /\ CalledAdd
    /\ instance = 1
    /\ Len(notified) = 2

\* C14: every project in the store has a people count that is a positive
\* integer.
C14_PeoplePositiveInteger ==
    \A i \in 1..Len(StoreProjects) :
        LET people == StoreProjects[i].people
        IN  ~people.nan /\ people.d = 1 /\ people.n >= 1

\* C15: the listener list only grows at its end; once bootstrap is done it
\* is the active list's listener followed by the finished list's, and every
\* successful mutation invokes them in that order.
C15_ListenersStay ==
    [][ /\ IsPrefix(StoreListeners, StoreListeners')
        /\ Ready' => StoreListeners' = <<ACTIVE, FINISHED>>
        /\ (Ready' /\ calls' # <<>> /\ ~fault') =>
              [k \in 1..Len(notified') |-> notified'[k].listener]
                  = <<ACTIVE, FINISHED>> ]_vars

\* C15 witness: after bootstrap a mutation has invoked the active list's
\* listener, then the finished list's.
C15_Witness ==
    /\ Ready
    /\ StoreListeners = <<ACTIVE, FINISHED>>
    /\ CalledUpdate
    /\ Len(notified) = 2
    /\ notified[1].listener = ACTIVE
    /\ notified[2].listener = FINISHED


\* Whether the drag in progress is one dragOverHandler accepts.
Recognized == dataTransfer.types # <<>> /\ dataTransfer.types[1] = "text/plain"

\* C17: a dragover on a list prevents the default and sets the list's marker
\* when the drag's type is recognized as text/plain, and otherwise does
\* neither and leaves the markers as they are; a dragleave on a list removes
\* its marker.
C17_DragOverAndLeave ==
    [][ \A type \in ProjectStatus :
          /\ DragOverOn(type) =>
                IF Recognized
                THEN defaultPrevented' /\ droppable'[type]
                ELSE ~defaultPrevented' /\ droppable' = droppable
          /\ DragLeaveOn(type) => ~droppable'[type] ]_vars

\* C17 witness: a dragover of a dragged item has marked the finished list.
C17_Witness ==
    /\ Ready
    /\ dataTransfer.fromItem
    /\ defaultPrevented
    /\ droppable[FINISHED]
    /\ ~droppable[ACTIVE]

\* C18: a list's marker changes only in a dragover or dragleave on that
\* list.
C18_MarkerFrame ==
    [][ \A type \in DOMAIN droppable :
          droppable'[type] # droppable[type] =>
              DragOverOn(type) \/ DragLeaveOn(type) ]_vars

\* C18 witness: after a drop on the finished list its marker is still set.
C18_Witness ==
    /\ CalledUpdate
    /\ ~fault
    /\ calls[1].args[2] = FINISHED
    /\ droppable[FINISHED]

\* The ids of the store's projects.
StoreIds == { StoreProjects[i].id : i \in 1..Len(StoreProjects) }

\* C19: every rendered item carries the id of a project in the store, and a
\* drop whose payload was set by the dragstart of a rendered item does not
\* fault.
C19_ItemDropsDoNotFault ==
    [][ /\ \A type \in DOMAIN dom' : \A i \in 1..Len(dom'[type]) :
              dom'[type][i].id \in StoreIds'
        /\ \A type \in ProjectStatus :
              (DropOn(type) /\ dataTransfer.fromItem) =>
                  /\ calls'[1].args[1] \in StoreIds
                  /\ ~fault' ]_vars

\* C19 witness: an item of a store of two projects is being dragged.
C19_Witness ==
    /\ dataTransfer.active
    /\ dataTransfer.fromItem
    /\ dataTransfer.data \in StoreIds
    /\ Len(StoreProjects) = 2

\* C20: updateProject(id, s) for a project with that id whose status already
\* is s changes no project, and still notifies every listener, after which
\* the lists render what they rendered before.
C20_UpdateIdempotent ==
    [][ \A type \in ProjectStatus :
          (/\ DropOn(type)
           /\ \E r \in Range(StoreRefs) :
                 /\ objects[r].id = getData(dataTransfer)
                 /\ objects[r].status = type) =>
              /\ ~fault'
              /\ objects' = objects
              /\ Len(notified') = Len(StoreListeners)
              /\ dom' = dom ]_vars


\* C16: each listener invocation is given an array of its own holding the
\* store's project sequence: whatever a listener does to the array it was
\* given, the store's sequence stays as it is, and the arrays given to the
\* other invocations of the same and of later passes hold the store's
\* sequence when they are given.
C16_FreshCopyPerListener ==
    [][ InvokeListener =>
          LET given == nReceived'[Len(nReceived')]
          IN  /\ nArrays'[1] = nArrays[1]
              /\ given.items = nArrays[1]
              /\ given.array # 1
              /\ \A k \in 1..Len(nReceived) : nReceived[k].array # given.array
              /\ \A a \in 1..Len(nArrays) : nArrays'[a] = nArrays[a] ]_vars

\* C16 witness: in a second pass, a listener is given the store's sequence
\* after earlier listeners changed the arrays they were given.
C16_Witness ==
    /\ Len(nReceived) >= 3
    /\ nReceived[Len(nReceived)].pass = 2
    /\ nReceived[Len(nReceived)].items = nArrays[1]
    /\ Len(nArrays[1]) >= 2
    /\ \E a \in 2..(Len(nArrays) - 1) : nArrays[a] # nArrays[1]

=============================================================================
